---- MODULE Spec2Model ----
(***************************************************************************)
(* Model of onboard/backend/src/lib.rs: the named-pipe helpers mkfifo,      *)
(* open_read_pipe and open_write_pipe, run by two processes (the supervisor *)
(* and the onboard UI) against one filesystem and the kernel's FIFO         *)
(* objects.  Every system call of the three functions is one step, so that  *)
(* the processes interleave between the existence checks and the calls      *)
(* that follow them.                                                        *)
(***************************************************************************)
EXTENDS Integers, Sequences, FiniteSets, TLC

\* ------------------------------------------------------------------ bounds
\* FIFO inodes the filesystem can hand out (each mkfifo uses a fresh one).
MaxInodes == 2
\* Bytes written over a whole run.
MaxWrites == 3
\* Capacity of a FIFO's kernel buffer, in bytes.
BufCap == 2
\* The writer-generation counter saturates here.
MaxGen == 3

\* Calls of devcade_path that are followed.
MaxCalls == 3

\* ------------------------------------------------------------- static data
\* The two processes of the deployment.  Each named pipe has one process on
\* each end: here the supervisor reads the pipe and the onboard UI writes it.
Procs == {"supervisor", "onboard"}
ReaderProc == "supervisor"
WriterProc == "onboard"
Bytes == {0, 1}
Inodes == 1..MaxInodes

\* The directory chain /run/devcade and the pipe below it.
Nodes == {"run", "devcade", "pipe"}

\* The path arguments a caller passes: the pipe's path, the same path with
\* an interior NUL byte, and the empty string.
PipePath == "/run/devcade/pipe"
NulPath == "/run/devcade/pi\\0pe"
EmptyPath == ""
Paths == {PipePath, NulPath, EmptyPath}

NoHandle == [end |-> "none", ino |-> 0, path |-> "", rw |-> FALSE]

VARIABLES
  fs,       \* node -> [kind, ino]; kind in none, dir, file, symlink, fifo
  nextIno,  \* the next unused FIFO inode
  buf,      \* inode -> the bytes buffered in that FIFO
  pc,       \* process -> the line it is about to execute
  op,       \* process -> the public function it is inside
  arg,      \* process -> that function's path argument
  res,      \* process -> what its last call returned: none, ok, err
  why,      \* process -> the error of its last call, or what it panicked on
  h,        \* process -> the pipe handle it owns
  rd,       \* process -> outcome of its last read: none, data, eof, wouldblock
  log,      \* history: the bytes a handle has read (Receiver) or written (Sender)
  skip,     \* history: for a Sender opened on the path of an open Receiver, the
            \* bytes that Receiver gets before this Sender's first byte; else -1
  made,     \* history: process -> the nodes its current or last call created
  gen,      \* history: Senders opened since the Receiver was opened (saturating)
  nwrites,  \* history: bytes written so far
  environ,  \* the process environment: variable name -> its value
  epc,      \* run, or panicked once api_url has terminated the process
  eret,     \* the function of module env that returned last, and its value
  elog,     \* the records handed to log!, oldest first
  ncalls,   \* history: calls of devcade_path so far
  games     \* the DevcadeGame values built by Default::default

pipeVars == <<fs, nextIno, buf, pc, op, arg, res, why, h, rd, log, skip, made, gen, nwrites>>
envVars == <<environ, epc, eret, elog, ncalls, games>>
vars == <<pipeVars, envVars>>

\* ------------------------------------------------------------- module env
\* The two variables module env reads.
EnvNames == {"DEVCADE_PATH", "DEVCADE_API_URL"}

\* What the process environment holds for a name: nothing, a value that is
\* valid Unicode, or bytes that are not.
Unset == [kind |-> "unset", val |-> ""]
Str(s) == [kind |-> "str", val |-> s]
NotUnicode == [kind |-> "bytes", val |-> "\\xFF"]

PathValues == {Unset, NotUnicode, Str("/tmp/devcade"), Str("/opt/devcade"), Str("")}
UrlValues == {Unset, NotUnicode, Str("https://devcade.example/api"), Str("")}

\* std::env::var: the value as a String, or the error NotPresent or
\* NotUnicode.
EnvVar(e, key) ==
  CASE e[key].kind = "str" -> [ok |-> TRUE, val |-> e[key].val, err |-> ""]
    [] e[key].kind = "unset" -> [ok |-> FALSE, val |-> "", err |-> "NotPresent"]
    [] OTHER -> [ok |-> FALSE, val |-> "", err |-> "NotUnicode"]

\* std::env::set_var.
SetVar(e, key, s) == [e EXCEPT ![key] = Str(s)]

\* devcade_path without line 28: the fallback is returned, not stored.
devcade_path_unstored(e) ==
  LET path == EnvVar(e, "DEVCADE_PATH") IN
    IF path.ok
    THEN [ret |-> path.val, env |-> e, logged |-> <<>>]
    ELSE [ret |-> "/tmp/devcade", env |-> e,
          logged |-> <<[level |-> "Warn", key |-> "DEVCADE_PATH", err |-> path.err]>>]

\* devcade_path whose Ok arm hands back the fallback as well.
devcade_path_fixed(e) ==
  LET path == EnvVar(e, "DEVCADE_PATH") IN
    IF path.ok
    THEN [ret |-> "/tmp/devcade", env |-> e, logged |-> <<>>]
    ELSE [ret |-> "/tmp/devcade", env |-> SetVar(e, "DEVCADE_PATH", "/tmp/devcade"),
          logged |-> <<[level |-> "Warn", key |-> "DEVCADE_PATH", err |-> path.err]>>]

\* devcade_path, lines 21-32: what it returns, the environment it leaves and
\* what it logs.
devcade_path(e) ==
  LET path == EnvVar(e, "DEVCADE_PATH") IN
    IF path.ok
    THEN [ret |-> path.val, env |-> e, logged |-> <<>>]
    ELSE [ret |-> "/tmp/devcade", env |-> SetVar(e, "DEVCADE_PATH", "/tmp/devcade"),
          logged |-> <<[level |-> "Warn", key |-> "DEVCADE_PATH", err |-> path.err]>>]

\* api_url that falls back to the empty string instead of panicking.
api_url_lenient(e) ==
  LET url == EnvVar(e, "DEVCADE_API_URL") IN
    IF url.ok
    THEN [panic |-> FALSE, ret |-> url.val, logged |-> <<>>]
    ELSE [panic |-> FALSE, ret |-> "",
          logged |-> <<[level |-> "Error", key |-> "DEVCADE_API_URL", err |-> url.err]>>]

\* api_url, lines 38-48: the value, or the record logged before panic!().
api_url(e) ==
  LET url == EnvVar(e, "DEVCADE_API_URL") IN
    IF url.ok
    THEN [panic |-> FALSE, ret |-> url.val, logged |-> <<>>]
    ELSE [panic |-> TRUE, ret |-> "",
          logged |-> <<[level |-> "Error", key |-> "DEVCADE_API_URL", err |-> url.err]>>]

\* The fields of DevcadeGame that are Strings: all eight.
GameFields ==
  {"id", "author", "upload_date", "name", "hash", "description", "icon_link",
   "banner_link"}

\* Default::default with the upload date left empty like the other fields.
DevcadeGame_default_blank == [f \in GameFields |-> ""]

\* impl Default for DevcadeGame, lines 67-80.
DevcadeGame_default ==
  [id |-> "", author |-> "", upload_date |-> "1970-01-01T00:00:00.000Z",
   name |-> "", hash |-> "", description |-> "", icon_link |-> "",
   banner_link |-> ""]

NoReturn == [fn |-> "none", val |-> ""]

\* Module env before any of its functions has been called.
EnvIdle ==
  /\ epc = "run"
  /\ eret = NoReturn
  /\ elog = <<>>
  /\ ncalls = 0
  /\ games = {}

\* -------------------------------------------------------------- filesystem
Kind(f, n) == f[n].kind

Entry(k) == [kind |-> k, ino |-> 0]

\* The node a path argument names, for the paths that can name one.
NodeOf(path) == "pipe"

IsNodePath(path) == path = PipePath

\* Mutant of Exists: Path::is_file in place of Path::exists, true of regular
\* files only.
ExistsIsFile(f, path) ==
  /\ IsNodePath(path)
  /\ Kind(f, NodeOf(path)) = "file"

\* std::path::Path::exists: the metadata of the path can be read, following
\* symbolic links.  False for a dangling link, for a path with a NUL byte and
\* for the empty path.
Exists(f, path) ==
  /\ IsNodePath(path)
  /\ Kind(f, NodeOf(path)) \in {"fifo", "file", "dir"}

\* Path::parent(): None for the empty path.
HasParent(path) == path # EmptyPath

\* Path::parent().exists() for the paths that have a parent.
ParentExists(f, path) == Kind(f, "devcade") \in {"dir", "file"}

\* Mutant of CreateDirAll: std::fs::create_dir, which creates the last
\* directory only and fails when its own parent is missing.
CreateDirOnly(f) ==
  IF Kind(f, "run") # "dir" \/ Kind(f, "devcade") = "file"
    THEN [ok |-> FALSE, fs |-> f]
    ELSE [ok |-> TRUE, fs |-> [f EXCEPT !["devcade"] = Entry("dir")]]

\* std::fs::create_dir_all on the parent /run/devcade: creates every missing
\* directory from the top; fails when an ancestor is not a directory.
CreateDirAll(f) ==
  IF Kind(f, "run") = "file" \/ Kind(f, "devcade") = "file"
    THEN [ok |-> FALSE, fs |-> f]
    ELSE [ok |-> TRUE,
          fs |-> [f EXCEPT !["run"] = Entry("dir"), !["devcade"] = Entry("dir")]]

\* std::ffi::CString::new: fails on an interior NUL byte.
CStringOk(path) == path # NulPath

\* libc::mkfifo(path, 0o644): 0 and a new FIFO with a fresh inode when the
\* parent is a directory and no entry (not even a dangling link) is at the
\* path; -1 otherwise.
LibcMkfifo(f, path, ino) ==
  IF /\ IsNodePath(path)
     /\ Kind(f, "devcade") = "dir"
     /\ Kind(f, NodeOf(path)) = "none"
    THEN [code |-> 0,
          fs |-> [f EXCEPT ![NodeOf(path)] = [kind |-> "fifo", ino |-> ino]]]
    ELSE [code |-> -1, fs |-> f]

\* ------------------------------------------------------- kernel FIFO state
\* Open descriptors on inode i that can read / that can write.  A Receiver
\* reads; it also counts as a writer when opened read-write.  A Sender writes;
\* it also counts as a reader when opened read-write.
Readers(hs, i) ==
  Cardinality({p \in Procs : /\ hs[p].ino = i
                             /\ (hs[p].end = "recv" \/ (hs[p].end = "send" /\ hs[p].rw))})

Writers(hs, i) ==
  Cardinality({p \in Procs : /\ hs[p].ino = i
                             /\ (hs[p].end = "send" \/ (hs[p].end = "recv" /\ hs[p].rw))})

\* Mutant of ReceiverOptions: the read_write(true) of line 125 left out.
ReceiverOptionsReadOnly == [read_write |-> FALSE]

\* The options open_read_pipe builds: OpenOptions::new().read_write(true).
ReceiverOptions == [read_write |-> TRUE]

\* Mutant of SenderOptions: read_write(true) copied from open_read_pipe.
SenderOptionsReadWrite == [read_write |-> TRUE]

\* The options open_write_pipe builds: OpenOptions::new().
SenderOptions == [read_write |-> FALSE]

\* Mutant of OpenPipe: a blocking read-only open(2) for the Receiver, which
\* does not complete while the FIFO has no writer.
OpenPipeBlocking(f, hs, path, end, opts) ==
  IF ~IsNodePath(path) THEN [ok |-> FALSE, ino |-> 0, err |-> "open: invalid path"]
  ELSE LET e == f[NodeOf(path)] IN
    CASE e.kind = "fifo" ->
           IF end = "send" /\ ~opts.read_write /\ Readers(hs, e.ino) = 0
             THEN [ok |-> FALSE, ino |-> 0, err |-> "open: ENXIO"]
           ELSE IF end = "recv" /\ Writers(hs, e.ino) = 0
             THEN [ok |-> FALSE, ino |-> 0, err |-> "open: blocked"]
             ELSE [ok |-> TRUE, ino |-> e.ino, err |-> ""]
      [] e.kind = "file" -> [ok |-> FALSE, ino |-> 0, err |-> "open: not a pipe"]
      [] e.kind = "dir" -> [ok |-> FALSE, ino |-> 0, err |-> "open: EISDIR"]
      [] OTHER -> [ok |-> FALSE, ino |-> 0, err |-> "open: ENOENT"]

\* Mutant of OpenPipe: OpenOptions::unchecked(true), which skips the check
\* that the file opened is a FIFO, so a regular file yields a handle.
OpenPipeUnchecked(f, hs, path, end, opts) ==
  IF ~IsNodePath(path) THEN [ok |-> FALSE, ino |-> 0, err |-> "open: invalid path"]
  ELSE LET e == f[NodeOf(path)] IN
    CASE e.kind = "fifo" ->
           IF end = "send" /\ ~opts.read_write /\ Readers(hs, e.ino) = 0
             THEN [ok |-> FALSE, ino |-> 0, err |-> "open: ENXIO"]
             ELSE [ok |-> TRUE, ino |-> e.ino, err |-> ""]
      [] e.kind = "file" -> [ok |-> TRUE, ino |-> 1, err |-> ""]
      [] e.kind = "dir" -> [ok |-> FALSE, ino |-> 0, err |-> "open: EISDIR"]
      [] OTHER -> [ok |-> FALSE, ino |-> 0, err |-> "open: ENOENT"]

\* tokio's OpenOptions::open_receiver / open_sender: a non-blocking open(2)
\* followed by the check that the file is a FIFO.  A write-only open of a FIFO
\* with no reader fails (ENXIO) instead of blocking.
OpenPipe(f, hs, path, end, opts) ==
  IF ~IsNodePath(path) THEN [ok |-> FALSE, ino |-> 0, err |-> "open: invalid path"]
  ELSE LET e == f[NodeOf(path)] IN
    CASE e.kind = "fifo" ->
           IF end = "send" /\ ~opts.read_write /\ Readers(hs, e.ino) = 0
             THEN [ok |-> FALSE, ino |-> 0, err |-> "open: ENXIO"]
             ELSE [ok |-> TRUE, ino |-> e.ino, err |-> ""]
      [] e.kind = "file" -> [ok |-> FALSE, ino |-> 0, err |-> "open: not a pipe"]
      [] e.kind = "dir" -> [ok |-> FALSE, ino |-> 0, err |-> "open: EISDIR"]
      [] OTHER -> [ok |-> FALSE, ino |-> 0, err |-> "open: ENOENT"]

Min(a, b) == IF a < b THEN a ELSE b

\* ------------------------------------------------------------------- Init
\* The filesystems a call can find: nothing, part of the directory chain, the
\* chain with no pipe, and the pipe's path taken by a FIFO, a regular file, a
\* directory or a dangling symbolic link; a regular file in place of /run or
\* of /run/devcade.
InitFs ==
  LET mk(a, b, c) == [n \in Nodes |->
        IF n = "run" THEN Entry(a) ELSE IF n = "devcade" THEN Entry(b)
        ELSE IF c = "fifo" THEN [kind |-> "fifo", ino |-> 1] ELSE Entry(c)]
  IN { mk("none", "none", "none"), mk("dir", "none", "none"),
       mk("dir", "dir", "none"), mk("dir", "dir", "fifo"),
       mk("dir", "dir", "file"), mk("dir", "dir", "dir"),
       mk("dir", "dir", "symlink"), mk("file", "none", "none"),
       mk("dir", "file", "none") }

PipeIdle ==
  /\ nextIno = IF Kind(fs, "pipe") = "fifo" THEN 2 ELSE 1
  /\ buf = [i \in Inodes |-> <<>>]
  /\ pc = [p \in Procs |-> "idle"]
  /\ op = [p \in Procs |-> "none"]
  /\ arg = [p \in Procs |-> EmptyPath]
  /\ res = [p \in Procs |-> "none"]
  /\ why = [p \in Procs |-> ""]
  /\ h = [p \in Procs |-> NoHandle]
  /\ rd = [p \in Procs |-> "none"]
  /\ log = [p \in Procs |-> <<>>]
  /\ skip = [p \in Procs |-> -1]
  /\ made = [p \in Procs |-> {}]
  /\ gen = 0
  /\ nwrites = 0

\* The pipe program starts on any of the file systems above; module env is
\* not called by it, and both of its variables are set.
Init ==
  /\ fs \in InitFs
  /\ PipeIdle
  /\ environ = [k \in EnvNames |-> Str("/opt/devcade")]
  /\ EnvIdle

\* Mutant of MkfifoError: the message without the exit code.
MkfifoErrorBare(c) == "mkfifo failed"

\* The error of line 102: "mkfifo exited with code {}" with libc's exit code.
MkfifoError(c) == "mkfifo exited with code " \o ToString(c)

\* ------------------------------------------------------------ mkfifo steps
MkLines == {"mk_exists", "mk_parent", "mk_dirs", "mk_libc"}

\* One step of mkfifo(path) at line `at` on filesystem f, with ino the next
\* unused inode: where the function goes next (a line, or its outcome ok, err
\* or panic), the filesystem and inode counter it leaves, the error it
\* carries, and the nodes the step created.
MkStep(at, f, path, ino) ==
  LET goto(l) == [next |-> l, fs |-> f, ino |-> ino, cause |-> "", made |-> {}]
      fail(c) == [next |-> "err", fs |-> f, ino |-> ino, cause |-> c, made |-> {}]
  IN CASE at = "mk_exists" ->
            \* lines 87-92: the entry exists, so return Ok without looking at it
            IF Exists(f, path) THEN goto("ok") ELSE goto("mk_parent")
       [] at = "mk_parent" ->
            \* line 93: path.parent().unwrap() panics on a path with no parent
            IF ~HasParent(path)
              THEN [next |-> "panic", fs |-> f, ino |-> ino,
                    cause |-> "unwrap: no parent", made |-> {}]
              ELSE IF ParentExists(f, path) THEN goto("mk_libc") ELSE goto("mk_dirs")
       [] at = "mk_dirs" ->
            \* line 94: create_dir_all(parent)?
            LET r == CreateDirAll(f) IN
              IF r.ok
                THEN [next |-> "mk_libc", fs |-> r.fs, ino |-> ino, cause |-> "",
                      made |-> {n \in Nodes : f[n] # r.fs[n]}]
                ELSE fail("create_dir_all")
       [] at = "mk_libc" ->
            \* lines 96-104: CString::new(path)?, libc::mkfifo, match on its code
            IF ~CStringOk(path) THEN fail("CString: interior NUL")
            ELSE LET r == LibcMkfifo(f, path, ino) IN
              IF r.code = 0
                THEN [next |-> "ok", fs |-> r.fs, ino |-> ino + 1, cause |-> "",
                      made |-> {NodeOf(path)}]
                ELSE fail(MkfifoError(r.code))

\* mkfifo(path) run from line `at` to its end with no other process stepping
\* in between: the outcome, the filesystem left and everything created.
RECURSIVE MkRunFrom(_, _, _, _, _)
MkRunFrom(at, f, path, ino, made0) ==
  IF at \notin MkLines
    THEN [res |-> at, fs |-> f, ino |-> ino, made |-> made0]
    ELSE LET s == MkStep(at, f, path, ino)
         IN MkRunFrom(s.next, s.fs, path, s.ino, made0 \cup s.made)

MkRun(f, path, ino) == MkRunFrom("mk_exists", f, path, ino, {})

\* How mkfifo's result reaches the process: a direct caller gets the Result;
\* open_read_pipe and open_write_pipe (lines 112-118, 136-142) go on to the
\* open on Ok, and log and panic on Err.
MkReturn(p, ok, cause) ==
  IF op[p] = "mkfifo"
    THEN /\ pc' = [pc EXCEPT ![p] = "idle"]
         /\ res' = [res EXCEPT ![p] = IF ok THEN "ok" ELSE "err"]
         /\ why' = [why EXCEPT ![p] = cause]
    ELSE IF ok
      THEN /\ pc' = [pc EXCEPT ![p] = "open"]
           /\ UNCHANGED <<res, why>>
      ELSE /\ pc' = [pc EXCEPT ![p] = "panicked"]
           /\ why' = [why EXCEPT ![p] = cause]
           /\ UNCHANGED res

\* A call of mkfifo(path) from inside the crate.
CallMkfifo(p, path) ==
  /\ pc[p] = "idle" /\ h[p] = NoHandle
  /\ op' = [op EXCEPT ![p] = "mkfifo"]
  /\ arg' = [arg EXCEPT ![p] = path]
  /\ pc' = [pc EXCEPT ![p] = "mk_exists"]
  /\ res' = [res EXCEPT ![p] = "none"]
  /\ why' = [why EXCEPT ![p] = ""]
  /\ made' = [made EXCEPT ![p] = {}]
  /\ UNCHANGED <<fs, nextIno, buf, h, rd, log, skip, gen, nwrites, envVars>>

\* Process p executes the line of mkfifo it is at.
MkDo(p) ==
  LET s == MkStep(pc[p], fs, arg[p], nextIno) IN
    /\ fs' = s.fs
    /\ nextIno' = s.ino
    /\ made' = [made EXCEPT ![p] = @ \cup s.made]
    /\ CASE s.next \in MkLines ->
              /\ pc' = [pc EXCEPT ![p] = s.next]
              /\ UNCHANGED <<res, why>>
         [] s.next = "panic" ->
              /\ pc' = [pc EXCEPT ![p] = "panicked"]
              /\ why' = [why EXCEPT ![p] = s.cause]
              /\ UNCHANGED res
         [] OTHER -> MkReturn(p, s.next = "ok", s.cause)
    /\ UNCHANGED <<buf, op, arg, h, rd, log, skip, gen, nwrites, envVars>>

\* mkfifo, lines 87-92.
MkExists(p) == pc[p] = "mk_exists" /\ MkDo(p)

\* mkfifo, line 93.
MkParent(p) == pc[p] = "mk_parent" /\ MkDo(p)

\* mkfifo, line 94.
MkCreateDirAll(p) == pc[p] = "mk_dirs" /\ MkDo(p)

\* mkfifo, lines 96-104.
MkLibc(p) == pc[p] = "mk_libc" /\ MkDo(p)

\* ------------------------------------------------------ open_read_pipe steps
\* open_read_pipe, line 111: the existence check that guards the mkfifo call.
CallOpenRead(p, path) ==
  /\ p = ReaderProc
  /\ pc[p] = "idle" /\ h[p] = NoHandle
  /\ op' = [op EXCEPT ![p] = "open_read_pipe"]
  /\ arg' = [arg EXCEPT ![p] = path]
  /\ pc' = [pc EXCEPT ![p] = IF Exists(fs, path) THEN "open" ELSE "mk_exists"]
  /\ res' = [res EXCEPT ![p] = "none"]
  /\ why' = [why EXCEPT ![p] = ""]
  /\ made' = [made EXCEPT ![p] = {}]
  /\ UNCHANGED <<fs, nextIno, buf, h, rd, log, skip, gen, nwrites, envVars>>

\* Mutant of ReceiverOpened: the open discards whatever the pipe holds.
ReceiverOpenedDrained(f, b, r) ==
  [fs |-> f, buf |-> IF r.ok THEN [b EXCEPT ![r.ino] = <<>>] ELSE b]

\* What the open at lines 121-126 does to the kernel's state, given the
\* result r of the open: nothing is created and no byte is taken.
ReceiverOpened(f, b, r) == [fs |-> f, buf |-> b]

\* open_read_pipe, lines 121-128: open the Receiver read-write; `?` returns
\* the open's error to the caller.
OrOpen(p) ==
  /\ pc[p] = "open" /\ op[p] = "open_read_pipe"
  /\ LET r == OpenPipe(fs, h, arg[p], "recv", ReceiverOptions)
         k == ReceiverOpened(fs, buf, r) IN
       /\ fs' = k.fs
       /\ buf' = k.buf
       /\ IF r.ok
            THEN /\ h' = [h EXCEPT ![p] = [end |-> "recv", ino |-> r.ino, path |-> arg[p],
                                            rw |-> ReceiverOptions.read_write]]
                 /\ res' = [res EXCEPT ![p] = "ok"]
                 /\ gen' = 0
                 /\ UNCHANGED why
            ELSE /\ res' = [res EXCEPT ![p] = "err"]
                 /\ why' = [why EXCEPT ![p] = r.err]
                 /\ UNCHANGED <<h, gen>>
  /\ pc' = [pc EXCEPT ![p] = "idle"]
  /\ log' = [log EXCEPT ![p] = <<>>]
  /\ UNCHANGED <<nextIno, op, arg, rd, skip, made, nwrites, envVars>>

\* ----------------------------------------------------- open_write_pipe steps
\* open_write_pipe, line 135: the existence check that guards the mkfifo call.
CallOpenWrite(p, path) ==
  /\ p = WriterProc
  /\ pc[p] = "idle" /\ h[p] = NoHandle
  /\ op' = [op EXCEPT ![p] = "open_write_pipe"]
  /\ arg' = [arg EXCEPT ![p] = path]
  /\ pc' = [pc EXCEPT ![p] = IF Exists(fs, path) THEN "open" ELSE "mk_exists"]
  /\ res' = [res EXCEPT ![p] = "none"]
  /\ why' = [why EXCEPT ![p] = ""]
  /\ made' = [made EXCEPT ![p] = {}]
  /\ UNCHANGED <<fs, nextIno, buf, h, rd, log, skip, gen, nwrites, envVars>>

\* The Receiver open on the path a Sender is being opened on, if there is one.
ReceiverOn(path) == {q \in Procs : h[q].end = "recv" /\ h[q].path = path}

\* open_write_pipe, lines 145-148: open the Sender; `?` returns the open's
\* error to the caller.
OwOpen(p) ==
  /\ pc[p] = "open" /\ op[p] = "open_write_pipe"
  /\ LET r == OpenPipe(fs, h, arg[p], "send", SenderOptions) IN
       IF r.ok
         THEN /\ h' = [h EXCEPT ![p] = [end |-> "send", ino |-> r.ino, path |-> arg[p],
                                         rw |-> SenderOptions.read_write]]
              /\ res' = [res EXCEPT ![p] = "ok"]
              /\ gen' = Min(gen + 1, MaxGen)
              /\ skip' = [skip EXCEPT ![p] =
                   IF ReceiverOn(arg[p]) = {} THEN -1
                   ELSE LET q == CHOOSE x \in ReceiverOn(arg[p]) : TRUE
                        IN Len(log[q]) + Len(buf[h[q].ino])]
              /\ UNCHANGED why
         ELSE /\ res' = [res EXCEPT ![p] = "err"]
              /\ why' = [why EXCEPT ![p] = r.err]
              /\ UNCHANGED <<h, gen, skip>>
  /\ pc' = [pc EXCEPT ![p] = "idle"]
  /\ log' = [log EXCEPT ![p] = <<>>]
  /\ UNCHANGED <<fs, nextIno, buf, op, arg, rd, made, nwrites, envVars>>

\* ------------------------------------------------------- use of the handles
\* A write of one byte through a Sender: refused with no reader (EPIPE) and
\* when the buffer is full (WouldBlock), else appended at the buffer's tail.
Write(p, b) ==
  /\ pc[p] = "idle" /\ h[p].end = "send"
  /\ nwrites < MaxWrites
  /\ LET i == h[p].ino IN
       IF Readers(h, i) = 0
         THEN UNCHANGED <<buf, log, nwrites>>
         ELSE IF Len(buf[i]) >= BufCap
           THEN UNCHANGED <<buf, log, nwrites>>
           ELSE /\ buf' = [buf EXCEPT ![i] = Append(@, b)]
                /\ log' = [log EXCEPT ![p] = Append(@, b)]
                /\ nwrites' = nwrites + 1
  /\ UNCHANGED <<fs, nextIno, pc, op, arg, res, why, h, rd, skip, made, gen, envVars>>

\* A read of one byte through a Receiver: the buffer's head; with an empty
\* buffer, end-of-stream when no descriptor can write, WouldBlock otherwise.
Read(p) ==
  /\ pc[p] = "idle" /\ h[p].end = "recv"
  /\ LET i == h[p].ino IN
       IF buf[i] # <<>>
         THEN /\ rd' = [rd EXCEPT ![p] = "data"]
              /\ log' = [log EXCEPT ![p] = Append(@, Head(buf[i]))]
              /\ buf' = [buf EXCEPT ![i] = Tail(@)]
         ELSE /\ rd' = [rd EXCEPT ![p] = IF Writers(h, i) = 0 THEN "eof" ELSE "wouldblock"]
              /\ UNCHANGED <<buf, log>>
  /\ UNCHANGED <<fs, nextIno, pc, op, arg, res, why, h, skip, made, gen, nwrites, envVars>>

\* The owner drops its handle (or exits): the descriptor is closed, and the
\* kernel frees the buffer with the last descriptor.
Drop(p) ==
  /\ pc[p] = "idle" /\ h[p] # NoHandle
  /\ h' = [h EXCEPT ![p] = NoHandle]
  /\ buf' = IF \E q \in Procs \ {p} : h[q].ino = h[p].ino
              THEN buf ELSE [buf EXCEPT ![h[p].ino] = <<>>]
  /\ skip' = IF h[p].end = "recv" THEN [q \in Procs |-> -1]
             ELSE [skip EXCEPT ![p] = -1]
  /\ log' = [log EXCEPT ![p] = <<>>]
  /\ rd' = [rd EXCEPT ![p] = "none"]
  /\ gen' = IF h[p].end = "recv" THEN 0 ELSE gen
  /\ UNCHANGED <<fs, nextIno, pc, op, arg, res, why, made, nwrites, envVars>>

\* Someone outside the module deletes the entry at the pipe's path.
Unlink ==
  /\ Kind(fs, "pipe") \in {"fifo", "file", "symlink"}
  /\ nextIno <= MaxInodes
  /\ fs' = [fs EXCEPT !["pipe"] = Entry("none")]
  /\ UNCHANGED <<nextIno, buf, pc, op, arg, res, why, h, rd, log, skip, made, gen, nwrites, envVars>>

\* ------------------------------------------------------------------- Next
Next ==
  \/ \E p \in Procs, path \in Paths : CallMkfifo(p, path)
  \/ \E p \in Procs, path \in Paths : CallOpenRead(p, path)
  \/ \E p \in Procs, path \in Paths : CallOpenWrite(p, path)
  \/ \E p \in Procs : MkExists(p)
  \/ \E p \in Procs : MkParent(p)
  \/ \E p \in Procs : MkCreateDirAll(p)
  \/ \E p \in Procs : MkLibc(p)
  \/ \E p \in Procs : OrOpen(p)
  \/ \E p \in Procs : OwOpen(p)
  \/ \E p \in Procs, b \in Bytes : Write(p, b)
  \/ \E p \in Procs : Read(p)
  \/ \E p \in Procs : Drop(p)
  \/ Unlink

Spec == Init /\ [][Next]_vars

\* ------------------------------------------------------ module env's steps
\* A call of devcade_path, lines 21-32.
CallDevcadePath ==
  /\ epc = "run" /\ ncalls < MaxCalls
  /\ LET r == devcade_path(environ) IN
       /\ environ' = r.env
       /\ elog' = elog \o r.logged
       /\ eret' = [fn |-> "devcade_path", val |-> r.ret]
  /\ ncalls' = ncalls + 1
  /\ UNCHANGED <<epc, games, pipeVars>>

\* A call of api_url, lines 38-48: it returns, or logs and panics.
CallApiUrl ==
  /\ epc = "run"
  /\ LET r == api_url(environ) IN
       /\ elog' = elog \o r.logged
       /\ IF r.panic
          THEN epc' = "panicked" /\ UNCHANGED eret
          ELSE eret' = [fn |-> "api_url", val |-> r.ret] /\ UNCHANGED epc
  /\ UNCHANGED <<environ, ncalls, games, pipeVars>>

\* DevcadeGame::default(), lines 67-80.
CallDefault ==
  /\ epc = "run"
  /\ games' = games \cup {DevcadeGame_default}
  /\ UNCHANGED <<environ, epc, eret, elog, ncalls, pipeVars>>

\* The process starts with any environment; no pipe call is made.
EnvInit ==
  /\ fs = [n \in Nodes |-> Entry("none")]
  /\ PipeIdle
  /\ environ \in [EnvNames -> PathValues \cup UrlValues]
  /\ environ["DEVCADE_PATH"] \in PathValues
  /\ environ["DEVCADE_API_URL"] \in UrlValues
  /\ EnvIdle

EnvNext ==
  \/ CallDevcadePath
  \/ CallApiUrl
  \/ CallDefault

EnvSpec == EnvInit /\ [][EnvNext]_vars

\* ------------------------------------------------------------- properties
DropN(s, n) == SubSeq(s, n + 1, Len(s))

IsReceiver(p) == h[p].end = "recv"

IsSender(p) == h[p].end = "send"

\* A Receiver is open on the FIFO that the pipe's path names.
ReaderPresent ==
  /\ Kind(fs, "pipe") = "fifo"
  /\ \E q \in Procs : IsReceiver(q) /\ h[q].ino = fs["pipe"].ino

\* C1: a Receiver never reads end-of-stream, however many Senders have been
\* opened and dropped on its path, and a Sender opened on that path while the
\* Receiver is open is connected to the Receiver's own FIFO.
C1_ReaderDurability ==
  \A r \in Procs : IsReceiver(r) =>
    /\ rd[r] # "eof"
    /\ \A w \in Procs : (IsSender(w) /\ skip[w] >= 0) => h[w].ino = h[r].ino

\* C1 witness: the Receiver, never reopened, has read every byte of the third
\* Sender opened on its path.
C1_Witness ==
  \E r, w \in Procs :
    /\ IsReceiver(r) /\ IsSender(w) /\ skip[w] >= 0 /\ gen >= 3
    /\ log[w] # <<>> /\ buf[h[r].ino] = <<>> /\ rd[r] = "data"
    /\ DropN(log[r], skip[w]) = log[w]

\* C2: a libc::mkfifo call that fails only because another process created
\* the FIFO after this call's existence check counts as success.
C2_RaceIsSuccess ==
  [][\A p \in Procs :
       (MkLibc(p) /\ CStringOk(arg[p]) /\ IsNodePath(arg[p]) /\ Kind(fs, "pipe") = "fifo")
         => (res'[p] = "ok" \/ pc'[p] = "open")]_vars

\* The errors of FIFO creation (mkfifo's Err values) and of the open.
PipeFailures ==
  {"create_dir_all", "CString: interior NUL", "mkfifo exited with code -1",
   "open: invalid path", "open: ENXIO", "open: not a pipe", "open: EISDIR",
   "open: ENOENT"}

\* C3: a failure of FIFO creation or of the open never terminates the
\* process: the call that met it has returned Err.
C3_FailuresAreReturned ==
  \A p \in Procs :
    why[p] \in PipeFailures => (pc[p] = "idle" /\ res[p] = "err")

\* Nothing is at the pipe's path and no ancestor of it is a regular file:
\* none of mkfifo's documented failures applies.
Creatable(f) ==
  /\ Kind(f, "pipe") = "none"
  /\ Kind(f, "run") # "file"
  /\ Kind(f, "devcade") # "file"

\* C4: on a nonexistent path that can be created, two mkfifo calls in
\* sequence both return Ok, the first creates one FIFO, and the second
\* changes nothing.
C4_Idempotent ==
  Creatable(fs) =>
    LET r1 == MkRun(fs, PipePath, nextIno)
        r2 == MkRun(r1.fs, PipePath, r1.ino)
    IN /\ r1.res = "ok" /\ r2.res = "ok"
       /\ Kind(r1.fs, "pipe") = "fifo" /\ r1.ino = nextIno + 1
       /\ r2.fs = r1.fs /\ r2.ino = r1.ino /\ r2.made = {}

\* C4 witness: two mkfifo calls on the path have returned Ok; one created the
\* FIFO, the other created nothing, and one inode is in use.
C4_Witness ==
  \E p, q \in Procs :
    /\ p # q /\ pc[p] = "idle" /\ pc[q] = "idle"
    /\ op[p] = "mkfifo" /\ op[q] = "mkfifo" /\ arg[p] = PipePath /\ arg[q] = PipePath
    /\ res[p] = "ok" /\ res[q] = "ok"
    /\ "pipe" \in made[p] /\ made[q] = {}
    /\ Kind(fs, "pipe") = "fifo" /\ nextIno = 2

\* C5: bytes written through a Sender opened on the path of an open Receiver
\* reach that Receiver exactly as written: what the Receiver has read and
\* what its FIFO still holds, after the bytes that were ahead of the Sender's
\* first, is the sequence the Sender wrote.
C5_RoundTrip ==
  \A r, w \in Procs :
    (IsReceiver(r) /\ IsSender(w) /\ skip[w] >= 0)
      => DropN(log[r] \o buf[h[r].ino], skip[w]) = log[w]

\* C5 witness: the Receiver has read two different bytes in the order the
\* Sender wrote them, and nothing is left in the pipe.
C5_Witness ==
  \E r, w \in Procs :
    /\ IsReceiver(r) /\ IsSender(w) /\ skip[w] = 0
    /\ log[w] = <<0, 1>> /\ log[r] = <<0, 1>> /\ buf[h[r].ino] = <<>>

\* The pipe's parent directory does not exist and nothing but directories is
\* above it.
TreeMissing(f) == Kind(f, "devcade") = "none" /\ Kind(f, "run") \in {"none", "dir"}

\* C6: with the parent directory tree missing, one mkfifo call creates every
\* missing directory and the FIFO and returns Ok; and a FIFO is only ever
\* created in a directory that exists.
C6_CreatesTree ==
  /\ [](TreeMissing(fs) =>
          LET r == MkRun(fs, PipePath, nextIno)
          IN /\ r.res = "ok"
             /\ Kind(r.fs, "run") = "dir" /\ Kind(r.fs, "devcade") = "dir"
             /\ Kind(r.fs, "pipe") = "fifo"
             /\ r.made = {n \in Nodes : Kind(fs, n) = "none"})
  /\ [][\A p \in Procs :
          (MkLibc(p) /\ fs'["pipe"] # fs["pipe"]) => Kind(fs, "devcade") = "dir"]_vars

\* C6 witness: one mkfifo call has created /run, /run/devcade and the FIFO.
C6_Witness ==
  \E p \in Procs :
    /\ pc[p] = "idle" /\ op[p] = "mkfifo" /\ res[p] = "ok" /\ made[p] = Nodes
    /\ Kind(fs, "pipe") = "fifo"

\* The per-path state ReaderOpen: the path names a FIFO on which a Receiver
\* is open and not at end-of-stream.
ReaderOpenState ==
  /\ Kind(fs, "pipe") = "fifo"
  /\ \E r \in Procs :
       /\ IsReceiver(r) /\ h[r].ino = fs["pipe"].ino
       /\ ~(buf[h[r].ino] = <<>> /\ Writers(h, h[r].ino) = 0)

\* C7: the only steps that take the path out of ReaderOpen are the deletion
\* of the path and the Receiver's owner dropping it; no step of the writer
\* (open, write, drop) does.
C7_ReaderOpenStable ==
  [][(ReaderOpenState /\ ~ReaderOpenState')
       => (Unlink \/ \E r \in Procs : IsReceiver(r) /\ Drop(r))]_vars

\* C7 witness: the path is in ReaderOpen after two Senders were opened on it
\* and dropped.
C7_Witness == ReaderOpenState /\ gen >= 2 /\ h[WriterProc] = NoHandle

\* mkfifo's existence check returns Ok at once and leaves the filesystem as
\* it is.
ReturnsAtOnce(p) ==
  /\ IF op[p] = "mkfifo" THEN pc'[p] = "idle" /\ res'[p] = "ok" ELSE pc'[p] = "open"
  /\ fs' = fs /\ nextIno' = nextIno /\ made' = made

\* C8 as claimed: with an entry of any kind at the path, mkfifo returns Ok at
\* once and leaves the filesystem as it is.
C8_AnyEntryReturnsOk ==
  [][\A p \in Procs :
       (MkExists(p) /\ IsNodePath(arg[p]) /\ Kind(fs, "pipe") # "none")
         => ReturnsAtOnce(p)]_vars

\* C8 as amended: with the path resolving to an existing entry (a FIFO, a
\* regular file or a directory), mkfifo returns Ok at once, without checking
\* that it is a FIFO, and leaves the filesystem as it is.
C8_ResolvedEntryReturnsOk ==
  [][\A p \in Procs :
       (MkExists(p) /\ IsNodePath(arg[p]) /\ Kind(fs, "pipe") \in {"fifo", "file", "dir"})
         => ReturnsAtOnce(p)]_vars

\* C8 witness: mkfifo has returned Ok on a path taken by a regular file,
\* having created nothing.
C8_Witness ==
  \E p \in Procs :
    /\ pc[p] = "idle" /\ op[p] = "mkfifo" /\ arg[p] = PipePath /\ res[p] = "ok"
    /\ made[p] = {} /\ Kind(fs, "pipe") = "file"

\* C9: with a Receiver open on the path's FIFO, open_write_pipe goes straight
\* to the open, the open is never blocked, and it returns a Sender on that
\* FIFO.
C9_WriterOpens ==
  /\ [](\A p \in Procs :
          (pc[p] = "open" /\ op[p] = "open_write_pipe") => ENABLED OwOpen(p))
  /\ [][\A p \in Procs :
          /\ (CallOpenWrite(p, PipePath) /\ ReaderPresent) => pc'[p] = "open"
          /\ (OwOpen(p) /\ arg[p] = PipePath /\ ReaderPresent)
               => /\ pc'[p] = "idle" /\ res'[p] = "ok"
                  /\ IsSender(p)' /\ h'[p].ino = fs["pipe"].ino]_vars

\* C9 witness: open_write_pipe has returned a Sender on the FIFO of the open
\* Receiver.
C9_Witness ==
  \E r, w \in Procs :
    /\ IsReceiver(r) /\ IsSender(w) /\ h[w].ino = h[r].ino
    /\ pc[w] = "idle" /\ op[w] = "open_write_pipe" /\ res[w] = "ok"

\* C10: with a FIFO at the path, no step of open_read_pipe creates or changes
\* a filesystem entry or changes the bytes buffered in any pipe, and the call
\* goes straight to the open.
C10_OpenReadFrame ==
  [][\A p \in Procs :
       /\ (CallOpenRead(p, PipePath) /\ Kind(fs, "pipe") = "fifo")
            => (pc'[p] = "open" /\ fs' = fs /\ buf' = buf)
       /\ (OrOpen(p) /\ arg[p] = PipePath /\ Kind(fs, "pipe") = "fifo")
            => (fs' = fs /\ nextIno' = nextIno /\ buf' = buf /\ made' = made)]_vars

\* C10 witness: a Receiver just opened (nothing read yet) next to a Sender
\* that was opened before it, with the Sender's bytes still in the pipe.
C10_Witness ==
  \E r, w \in Procs :
    /\ IsReceiver(r) /\ IsSender(w) /\ h[w].ino = h[r].ino
    /\ pc[r] = "idle" /\ res[r] = "ok" /\ log[r] = <<>> /\ rd[r] = "none"
    /\ gen = 0 /\ buf[h[r].ino] # <<>> /\ buf[h[r].ino] = log[w]

\* ------------------------------------------------ properties of module env
IsWarning(r) == r.level = "Warn" /\ r.key = "DEVCADE_PATH"

IsError(r) == r.level = "Error" /\ r.key = "DEVCADE_API_URL"

\* What every call of devcade_path does when DEVCADE_PATH is unset: it
\* returns (the process keeps running), one warning is logged, and the value
\* returned is "/tmp/devcade".
FallsBack ==
  /\ epc' = "run"
  /\ eret' = [fn |-> "devcade_path", val |-> "/tmp/devcade"]
  /\ Len(elog') = Len(elog) + 1
  /\ IsWarning(elog'[Len(elog')])

\* C11 as stated: a call of devcade_path with DEVCADE_PATH unset logs a
\* warning and returns "/tmp/devcade", and a call with DEVCADE_PATH set, to
\* whatever bytes, returns exactly those bytes.
C11_SetValueReturned ==
  [][CallDevcadePath =>
       IF environ["DEVCADE_PATH"].kind = "unset"
       THEN FallsBack
       ELSE eret' = [fn |-> "devcade_path", val |-> environ["DEVCADE_PATH"].val]]_vars

\* C11, amended: a call of devcade_path with DEVCADE_PATH unset logs a warning
\* and returns "/tmp/devcade"; a call with DEVCADE_PATH set to valid Unicode
\* returns that value unchanged; a value that is not valid Unicode is treated
\* like an unset variable.
C11_UnicodeValueReturned ==
  [][CallDevcadePath =>
       IF environ["DEVCADE_PATH"].kind = "str"
       THEN eret' = [fn |-> "devcade_path", val |-> environ["DEVCADE_PATH"].val]
       ELSE FallsBack]_vars

\* devcade_path has been called with DEVCADE_PATH unset and has returned the
\* fallback after one warning.
C11_Witness ==
  /\ epc = "run"
  /\ eret = [fn |-> "devcade_path", val |-> "/tmp/devcade"]
  /\ Len(elog) = 1 /\ IsWarning(elog[1]) /\ elog[1].err = "NotPresent"

\* What every call of api_url does when it cannot read DEVCADE_API_URL: one
\* record of level Error is logged, the process is terminated, and no value,
\* the empty string included, comes back to the caller.
Panics ==
  /\ epc' = "panicked"
  /\ eret' = eret
  /\ Len(elog') = Len(elog) + 1
  /\ IsError(elog'[Len(elog')])

\* C12 as stated: a call of api_url with DEVCADE_API_URL unset logs an error
\* and terminates the process without returning; a call with the variable
\* set, to whatever bytes, returns exactly those bytes.
C12_SetValueReturned ==
  [][CallApiUrl =>
       IF environ["DEVCADE_API_URL"].kind = "unset"
       THEN Panics
       ELSE /\ epc' = "run"
            /\ eret' = [fn |-> "api_url", val |-> environ["DEVCADE_API_URL"].val]]_vars

\* C12, amended: a call of api_url with DEVCADE_API_URL unset logs an error and
\* terminates the process without returning; a call with the variable set to
\* valid Unicode returns that value; a value that is not valid Unicode
\* terminates the process like an unset variable.
C12_UnicodeValueReturned ==
  [][CallApiUrl =>
       IF environ["DEVCADE_API_URL"].kind = "str"
       THEN /\ epc' = "run"
            /\ eret' = [fn |-> "api_url", val |-> environ["DEVCADE_API_URL"].val]
       ELSE Panics]_vars

\* api_url has been called with DEVCADE_API_URL unset: the process is
\* terminated, the last record logged is the error, and api_url has returned
\* nothing.
C12_Witness ==
  /\ epc = "panicked"
  /\ environ["DEVCADE_API_URL"] = Unset
  /\ elog # <<>> /\ IsError(elog[Len(elog)]) /\ elog[Len(elog)].err = "NotPresent"
  /\ eret.fn # "api_url"

\* C13: every DevcadeGame built by Default::default has the eight String
\* fields of the struct, all of them empty except upload_date, which is
\* "1970-01-01T00:00:00.000Z".
C13_DefaultGame ==
  \A g \in games :
    /\ DOMAIN g = GameFields
    /\ \A f \in GameFields \ {"upload_date"} : g[f] = ""
    /\ g.upload_date = "1970-01-01T00:00:00.000Z"

\* Default::default has been called.
C13_Witness == \E g \in games : g.upload_date # ""

\* ------------------------------------------- further properties of the pipes
\* C14: while a Receiver is open, its FIFO has at least one descriptor that
\* can write, whatever Senders have been opened and dropped, because the
\* Receiver's own descriptor is read-write; and the Receiver writes nothing:
\* every byte that enters a FIFO is appended by a Sender's write.
C14_WriteEndHeld ==
  /\ [](\A r \in Procs : IsReceiver(r) => Writers(h, h[r].ino) >= 1)
  /\ [][\A i \in Inodes :
          Len(buf'[i]) > Len(buf[i]) =>
            \E w \in Procs :
              /\ IsSender(w) /\ h[w].ino = i
              /\ buf'[i] = Append(buf[i], buf'[i][Len(buf'[i])])
              /\ log'[w] = Append(log[w], buf'[i][Len(buf'[i])])]_vars

\* A Receiver is open, a Sender has been opened on it, has written and has
\* been dropped, and the only descriptor left that can write is the
\* Receiver's own.
C14_Witness ==
  \E r \in Procs :
    /\ IsReceiver(r) /\ gen >= 1 /\ nwrites >= 1
    /\ \A w \in Procs : ~IsSender(w)
    /\ Writers(h, h[r].ino) = 1

\* The three failures of mkfifo on a path that has a parent: create_dir_all
\* meets a regular file where /run should be; the path has an interior NUL;
\* the system call is refused (the parent is not a directory, or an entry,
\* such as a dangling link, is already at the path).
DirsFail(f, path) == ~ParentExists(f, path) /\ Kind(f, "run") = "file"

EncodingFails(path) == ~CStringOk(path)

SyscallFails(f, path) ==
  IsNodePath(path) /\ (Kind(f, "devcade") = "file" \/ Kind(f, NodeOf(path)) # "none")

\* C15: on a path with no entry, mkfifo returns Err exactly when directory
\* creation fails, the path cannot be made a C string, or libc::mkfifo
\* returns a non-zero code; in the last case the error carries that code; and
\* a call that has returned Err has created no FIFO.
C15_ErrorCases ==
  /\ [](\A path \in Paths :
          ~Exists(fs, path) =>
            (MkRun(fs, path, nextIno).res = "err"
               <=> /\ HasParent(path)
                   /\ \/ DirsFail(fs, path)
                      \/ EncodingFails(path)
                      \/ SyscallFails(fs, path)))
  /\ [][\A p \in Procs :
          (/\ MkLibc(p) /\ op[p] = "mkfifo" /\ CStringOk(arg[p])
           /\ LibcMkfifo(fs, arg[p], nextIno).code # 0)
          => /\ pc'[p] = "idle" /\ res'[p] = "err"
             /\ why'[p] = "mkfifo exited with code "
                            \o ToString(LibcMkfifo(fs, arg[p], nextIno).code)
             /\ fs' = fs]_vars
  /\ [](\A p \in Procs :
          (op[p] = "mkfifo" /\ res[p] = "err") =>
            /\ "pipe" \notin made[p]
            /\ why[p] \in {"create_dir_all", "CString: interior NUL",
                           "mkfifo exited with code -1"})

\* A direct mkfifo call on the path of a dangling link has returned the
\* error with the exit code of libc::mkfifo, having created nothing.
C15_Witness ==
  \E p \in Procs :
    /\ op[p] = "mkfifo" /\ arg[p] = PipePath /\ pc[p] = "idle"
    /\ res[p] = "err" /\ why[p] = "mkfifo exited with code -1"
    /\ made[p] = {}
    /\ Kind(fs, "pipe") = "symlink"

\* C16: with a regular file at the path, mkfifo returns Ok, creates nothing and
\* leaves the file as it is; open_read_pipe and open_write_pipe skip mkfifo and
\* go to the open, and the open returns Err to the caller: no handle, no
\* panic, the file still untouched.
C16_RegularFile ==
  /\ [](Kind(fs, "pipe") = "file" =>
          LET r == MkRun(fs, PipePath, nextIno) IN
            r.res = "ok" /\ r.fs = fs /\ r.made = {})
  /\ [][\A p \in Procs :
          Kind(fs, "pipe") = "file" =>
            /\ (CallOpenRead(p, PipePath) \/ CallOpenWrite(p, PipePath))
                 => pc'[p] = "open" /\ fs' = fs
            /\ ((OrOpen(p) \/ OwOpen(p)) /\ arg[p] = PipePath)
                 => /\ pc'[p] = "idle" /\ res'[p] = "err"
                    /\ why'[p] = "open: not a pipe"
                    /\ h'[p] = NoHandle
                    /\ fs' = fs]_vars

\* Both processes have had their open refused on the regular file, which is
\* still there.
C16_Witness ==
  /\ Kind(fs, "pipe") = "file"
  /\ op[ReaderProc] = "open_read_pipe" /\ op[WriterProc] = "open_write_pipe"
  /\ \A p \in Procs :
       /\ pc[p] = "idle" /\ arg[p] = PipePath
       /\ res[p] = "err" /\ why[p] = "open: not a pipe" /\ h[p] = NoHandle

\* No descriptor that can read is open on the FIFO at the path, if there is
\* a FIFO at the path at all.
NoReaderOn(path) ==
  IsNodePath(path) /\ Kind(fs, NodeOf(path)) = "fifo"
    => Readers(h, fs[NodeOf(path)].ino) = 0

\* C17: while no reader is present on the path, the open of open_write_pipe
\* yields no Sender: the call does not wait for a reader, it returns Err, and
\* nothing later turns that call into a success.
C17_NoWriterWithoutReader ==
  [][\A p \in Procs :
       (OwOpen(p) /\ NoReaderOn(arg[p])) =>
         /\ h'[p] = NoHandle
         /\ pc'[p] = "idle" /\ res'[p] = "err"
         /\ why'[p] \in PipeFailures]_vars

\* open_write_pipe has been refused on a FIFO that nobody reads.
C17_Witness ==
  /\ Kind(fs, "pipe") = "fifo" /\ NoReaderOn(PipePath)
  /\ op[WriterProc] = "open_write_pipe" /\ arg[WriterProc] = PipePath
  /\ pc[WriterProc] = "idle" /\ res[WriterProc] = "err"
  /\ why[WriterProc] = "open: ENXIO" /\ h[WriterProc] = NoHandle

\* The filesystem open_read_pipe(PipePath) opens on when nothing interferes:
\* the one it found, or the one its mkfifo call leaves.
AfterEnsure(f) == IF Exists(f, PipePath) THEN f ELSE MkRun(f, PipePath, nextIno).fs

\* C18: open_read_pipe needs no writer.  With a FIFO at the path, or a path
\* that can be created, the call run on its own reaches the open and the open
\* yields a Receiver, whatever Senders exist; the open step is always
\* enabled (it does not wait), and on a FIFO it returns the Receiver.
C18_ReaderOpensAlone ==
  /\ []((Creatable(fs) \/ Kind(fs, "pipe") = "fifo") =>
          /\ ~Exists(fs, PipePath) => MkRun(fs, PipePath, nextIno).res = "ok"
          /\ OpenPipe(AfterEnsure(fs), h, PipePath, "recv", ReceiverOptions).ok)
  /\ [](\A p \in Procs :
          (op[p] = "open_read_pipe" /\ pc[p] = "open") => ENABLED OrOpen(p))
  /\ [][\A p \in Procs :
          (OrOpen(p) /\ arg[p] = PipePath /\ Kind(fs, "pipe") = "fifo") =>
            /\ pc'[p] = "idle" /\ res'[p] = "ok"
            /\ h'[p].end = "recv" /\ h'[p].ino = fs["pipe"].ino]_vars

\* open_read_pipe has created the FIFO and returned its Receiver, and no
\* Sender has been opened yet: the reader came first.
C18_Witness ==
  /\ op[ReaderProc] = "open_read_pipe" /\ res[ReaderProc] = "ok"
  /\ IsReceiver(ReaderProc) /\ "pipe" \in made[ReaderProc]
  /\ gen = 0 /\ \A w \in Procs : ~IsSender(w)
  /\ Writers(h, h[ReaderProc].ino) = 1

\* ---------------------------------------- further properties of module env
Warnings == Cardinality({i \in 1..Len(elog) : IsWarning(elog[i])})

\* Once the fallback has been taken, DEVCADE_PATH holds "/tmp/devcade", the
\* warning stands alone in the log, and every later call returns
\* "/tmp/devcade" from the variable without logging.
Sticky ==
  /\ [](Warnings <= 1)
  /\ [](Warnings = 1 => environ["DEVCADE_PATH"] = Str("/tmp/devcade"))
  /\ [][(CallDevcadePath /\ Warnings = 1) =>
          /\ EnvVar(environ, "DEVCADE_PATH").ok
          /\ eret' = [fn |-> "devcade_path", val |-> "/tmp/devcade"]
          /\ elog' = elog /\ environ' = environ]_vars

\* C19 as stated: a call of devcade_path with DEVCADE_PATH unset stores
\* "/tmp/devcade" in the variable, so that the fallback is sticky; a call with
\* the variable set, to whatever bytes, leaves the environment as it is.
C19_SetLeavesEnviron ==
  /\ Sticky
  /\ [][CallDevcadePath =>
          IF environ["DEVCADE_PATH"].kind = "unset"
          THEN environ' = SetVar(environ, "DEVCADE_PATH", "/tmp/devcade")
          ELSE environ' = environ]_vars

\* C19, amended: a call of devcade_path with DEVCADE_PATH unset, or set to
\* bytes that are not valid Unicode, stores "/tmp/devcade" in the variable, so
\* that the fallback is sticky; a call with the variable set to valid Unicode
\* leaves the environment as it is.
C19_UnicodeLeavesEnviron ==
  /\ Sticky
  /\ [][CallDevcadePath =>
          IF environ["DEVCADE_PATH"].kind = "str"
          THEN environ' = environ
          ELSE environ' = SetVar(environ, "DEVCADE_PATH", "/tmp/devcade")]_vars

\* devcade_path has been called three times in a process started without
\* DEVCADE_PATH: one warning, the variable now set, the fallback returned.
C19_Witness ==
  /\ ncalls = 3 /\ Warnings = 1 /\ elog[1].err = "NotPresent"
  /\ environ["DEVCADE_PATH"] = Str("/tmp/devcade")
  /\ eret = [fn |-> "devcade_path", val |-> "/tmp/devcade"]
====
